---- MODULE Spec2Model ----
(***************************************************************************)
(* datapane: the parameter blocks (python-client/src/datapane/blocks/      *)
(* parameters.py), the upload type B64Path of the same file, and the       *)
(* client configuration (src/datapane/client/config.py).                   *)
(*                                                                         *)
(* Python values are tagged records ([t |-> "none"], [t |-> "str", ...]).  *)
(* A Python str is a sequence of one-character strings, so that json       *)
(* escaping, str() and the XML check are computed character by character.  *)
(***************************************************************************)
EXTENDS Integers, Sequences, FiniteSets, TLC

VARIABLES
    attempt,          \* the arguments of the latest constructor call
    outcome,          \* how that call ended: "ok" or the exception raised
    inst,             \* the instance it returned, NoInst when it raised
    lastOp,           \* the latest operation applied
    result,           \* what the latest _as_field / validator call returned
    markup,           \* what the latest _to_xml call on inst returned
    fs,               \* the temporary directory: file name -> bytes
    handles,          \* the B64Path handles returned so far, in order
    decoded,          \* how the latest B64Path.validate call ended
    payload,          \* its argument, where the specification records it
    config,           \* config.py: the module global `config`
    last_config_env,  \* config.py: the module global `last_config_env`
    files,            \* APP_DIR: file name -> parsed yaml, or NoFile
    stack,            \* the frames of init in progress, innermost last
    ret,              \* how the latest outermost init call ended
    nested,           \* re-entries of init under the current outermost call
    by_datapane       \* api.by_datapane, fixed for the process

paramVars == <<attempt, outcome, inst, lastOp, result, markup>>
fileVars == <<fs, handles, decoded, payload>>
configVars == <<config, last_config_env, files, stack, ret, nested, by_datapane>>
vars == <<attempt, outcome, inst, lastOp, result, markup, fs, handles, decoded, payload,
          config, last_config_env, files, stack, ret, nested, by_datapane>>

(***************************************************************************)
(* Bounds                                                                  *)
(***************************************************************************)
\* longest options list tried
MaxOpts == 2
\* longest initial / submitted list tried
MaxSel == 2
\* longest upload payload tried, in characters
MaxLen == 4
\* temporary file names available
MaxFiles == 3
\* frames of init the model lets pile up
MaxDepth == 3

SeqsUpTo(S, n) == UNION {[1..k -> S] : k \in 0..n}

RECURSIVE Concat(_)
Concat(ss) == IF ss = <<>> THEN <<>> ELSE Head(ss) \o Concat(Tail(ss))

(***************************************************************************)
(* Python values                                                           *)
(***************************************************************************)
None == [t |-> "none"]
Str(s) == [t |-> "str", v |-> s]
Bool(b) == [t |-> "bool", v |-> b]
Int_(n) == [t |-> "int", cls |-> "fin", v |-> n]
Float(n) == [t |-> "float", cls |-> "fin", v |-> n]
PosInf == [t |-> "float", cls |-> "inf", v |-> 0]
NegInf == [t |-> "float", cls |-> "-inf", v |-> 0]
NaN == [t |-> "float", cls |-> "nan", v |-> 0]
List(xs) == [t |-> "list", v |-> xs]
DateV(y, m, d) == [t |-> "date", y |-> y, m |-> m, d |-> d]
TimeV(h, mi, s) == [t |-> "time", h |-> h, mi |-> mi, s |-> s]
DateTimeV(d, tm) == [t |-> "datetime", date |-> d, time |-> tm]
PathV(p) == [t |-> "path", v |-> p]

\* the form feed: a control character, which lxml refuses in any string
FF == "\f"
Strings == {<<>>, <<"a">>, <<FF>>}
Names == {Str(<<>>), Str(<<"n">>), Str(<<FF>>)}
Labels == {None, Str(<<>>), Str(<<"L">>), Str(<<FF>>)}
NonFinite == {PosInf, NegInf, NaN}
NumInputs == {Int_(5), Float(5)} \cup NonFinite
Dates == {DateV(2024, 1, 5)}
Times == {TimeV(9, 30, 0)}
Paths == {PathV(<<"/", "f">>)}

Variants == {"Switch", "TextBox", "NumberBox", "Range", "Choice", "MultiChoice",
             "Tags", "Date", "Time", "DateTime", "File"}

NoInst == [variant |-> "none"]
NoResult == [op |-> "none"]
NoMarkup == [err |-> "none"]

(***************************************************************************)
(* Conversions: str(), isoformat(), json.dumps()                           *)
(***************************************************************************)
RECURSIVE Digits(_)
Digits(n) == IF n < 10 THEN <<ToString(n)>> ELSE Digits(n \div 10) \o <<ToString(n % 10)>>

RECURSIVE Pad(_, _)
Pad(cs, width) == IF Len(cs) >= width THEN cs ELSE Pad(<<"0">> \o cs, width)

str_int(n) == IF n < 0 THEN <<"-">> \o Digits(0 - n) ELSE Digits(n)

str_float(x) ==
    CASE x.cls = "inf" -> <<"i", "n", "f">>
      [] x.cls = "-inf" -> <<"-", "i", "n", "f">>
      [] x.cls = "nan" -> <<"n", "a", "n">>
      [] OTHER -> str_int(x.v) \o <<".", "0">>

date_isoformat(d) == Pad(Digits(d.y), 4) \o <<"-">> \o Pad(Digits(d.m), 2) \o <<"-">> \o Pad(Digits(d.d), 2)
time_isoformat(tm) == Pad(Digits(tm.h), 2) \o <<":">> \o Pad(Digits(tm.mi), 2) \o <<":">> \o Pad(Digits(tm.s), 2)
datetime_isoformat(x) == date_isoformat(x.date) \o <<"T">> \o time_isoformat(x.time)

json_escape(c) ==
    CASE c = FF -> <<"\\", "f">>
      [] c = "\"" -> <<"\\", "\"">>
      [] c = "\\" -> <<"\\", "\\">>
      [] OTHER -> <<c>>

json_str(s) == <<"\"">> \o Concat([i \in 1..Len(s) |-> json_escape(s[i])]) \o <<"\"">>

RECURSIVE json_items(_)
json_items(xs) ==
    IF xs = <<>> THEN <<>>
    ELSE IF Len(xs) = 1 THEN json_str(xs[1])
    ELSE json_str(xs[1]) \o <<",", " ">> \o json_items(Tail(xs))

\* json.dumps of a list of str
json_dumps(xs) == <<"[">> \o json_items(xs) \o <<"]">>

\* float(x) of an int or a float
float_(x) == [x EXCEPT !.t = "float"]

\* math.isinf(v) or math.isnan(v), for a float
isinf_or_isnan(v) == v.cls \in {"inf", "-inf", "nan"}

isinstance_float(v) == v.t = "float"

(***************************************************************************)
(* The markup builder                                                      *)
(***************************************************************************)
\* str(v), lower-cased for a bool
conv_attrib(v) ==
    CASE v.t = "str" -> v.v
      [] v.t = "bool" -> IF v.v THEN <<"t", "r", "u", "e">> ELSE <<"f", "a", "l", "s", "e">>
      [] v.t = "int" -> str_int(v.v)
      [] v.t = "float" -> str_float(v)
      [] v.t = "path" -> v.v
      [] v.t = "date" -> date_isoformat(v)
      [] v.t = "time" -> time_isoformat(v)
      [] v.t = "datetime" -> datetime_isoformat(v)
      [] OTHER -> <<>>

IsSet_(kv) == kv[2] # None

\* mk_attribs(**kw): the keywords whose value is not None, each as a string
mk_attribs(kw) ==
    LET kept == SelectSeq(kw, IsSet_)
    IN [i \in 1..Len(kept) |-> <<kept[i][1], conv_attrib(kept[i][2])>>]

\* lxml takes "Unicode or ASCII, no NULL bytes or control characters"
XmlCompatible(s) == \A i \in 1..Len(s) : s[i] # FF

\* E.<tag>(**attribs): the element, or lxml's ValueError
E(tag, attribs) ==
    IF \E i \in 1..Len(attribs) : ~XmlCompatible(attribs[i][2])
    THEN [err |-> "ValueError", tag |-> tag, attribs |-> <<>>]
    ELSE [err |-> "ok", tag |-> tag, attribs |-> attribs]

\* **self.attribs
AttribItems(attribs) ==
    << <<"name", attribs.name>>, <<"label", attribs.label>>,
       <<"required", attribs.required>>, <<"initial", attribs.initial>> >>

(***************************************************************************)
(* class Parameter and its subclasses                                      *)
(***************************************************************************)
Raise(e) == [err |-> e, self |-> NoInst]
Return(self) == [err |-> "ok", self |-> self]

\* the _proc_initial of each class
_proc_initial(variant, x) ==
    CASE variant \in {"MultiChoice", "Tags"} -> Str(json_dumps(x.v))
      [] variant = "Date" -> Str(date_isoformat(x))
      [] variant = "Time" -> Str(time_isoformat(x))
      [] variant = "DateTime" -> Str(datetime_isoformat(x))
      [] OTHER -> x

Parameter_init_nolabel(variant, name, label, initial, allow_empty) ==
    IF name.v = <<>> THEN Raise("DPClientError")
    ELSE Return([variant |-> variant, name |-> name, label |-> label, initial |-> initial,
                 attribs |-> [name |-> name, label |-> label, required |-> Bool(~allow_empty),
                              initial |-> IF initial # None THEN _proc_initial(variant, initial)
                                          ELSE None],
                 min |-> None, max |-> None, step |-> None, options |-> <<>>])

\* Parameter.__init__
Parameter_init(variant, name, label, initial, allow_empty) ==
    IF name.v = <<>> THEN Raise("DPClientError")
    ELSE IF label = Str(<<>>) THEN Raise("DPClientError")
    ELSE Return([variant |-> variant, name |-> name, label |-> label, initial |-> initial,
                 attribs |-> [name |-> name, label |-> label, required |-> Bool(~allow_empty),
                              initial |-> IF initial # None THEN _proc_initial(variant, initial)
                                          ELSE None],
                 min |-> None, max |-> None, step |-> None, options |-> <<>>])

\* Parameter._to_xml: the instance afterwards and the element (or the error)
Parameter_to_xml(self) ==
    [self |-> self, out |-> E(self.variant, mk_attribs(AttribItems(self.attribs)))]

Range_to_xml(self) ==
    [self |-> self,
     out |-> E("Range", mk_attribs(AttribItems(self.attribs) \o
                 << <<"min", self.min>>, <<"max", self.max>>, <<"step", self.step>> >>))]

\* choices = self.options; choices.insert(0, ""): the list is the instance's
Choice_to_xml_alias(self) ==
    [self |-> [self EXCEPT !.options = <<<<>>>> \o self.options],
     out |-> E("Choice", mk_attribs(AttribItems(self.attribs) \o
                 << <<"choices", Str(json_dumps(<<<<>>>> \o self.options))>> >>))]

\* Choice._to_xml
Choice_to_xml(self) ==
    [self |-> self,
     out |-> E("Choice", mk_attribs(AttribItems(self.attribs) \o
                 << <<"choices", Str(json_dumps(self.options))>> >>))]

MultiChoice_to_xml(self) ==
    [self |-> self,
     out |-> E("MultiChoice", mk_attribs(AttribItems(self.attribs) \o
                 << <<"choices", Str(json_dumps(self.options))>> >>))]

_to_xml(self) ==
    CASE self.variant = "Range" -> Range_to_xml(self)
      [] self.variant = "Choice" -> Choice_to_xml(self)
      [] self.variant = "MultiChoice" -> MultiChoice_to_xml(self)
      [] OTHER -> Parameter_to_xml(self)

\* Parameter._check_instance: whatever _to_xml raises leaves the constructor
_check_instance(self) ==
    LET x == _to_xml(self)
    IN IF x.out.err # "ok" THEN Raise(x.out.err) ELSE Return(x.self)

\* the constructors that only call the base and check: Switch, TextBox,
\* NumberBox, Date, Time, DateTime, File
Simple_init(variant, a) ==
    LET base == Parameter_init(variant, a.name, a.label, a.initial, a.allow_empty)
    IN IF base.err # "ok" THEN base ELSE _check_instance(base.self)

\* Tags.__init__: initial or []
Tags_init(a) ==
    LET initial == IF a.initial = None \/ a.initial.v = <<>> THEN List(<<>>) ELSE a.initial
        base == Parameter_init("Tags", a.name, a.label, initial, a.allow_empty)
    IN IF base.err # "ok" THEN base ELSE _check_instance(base.self)

Range_init_isinf(a) ==
    LET base == Parameter_init("Range", a.name, a.label, float_(a.initial), FALSE)
    IN IF base.err # "ok" THEN base
       ELSE IF \E v \in {a.min, a.max, a.step} :
                 v # None /\ isinstance_float(v) /\ v.cls \in {"inf", "-inf"}
       THEN Raise("DPClientError")
       ELSE _check_instance([base.self EXCEPT
                !.min = float_(a.min), !.max = float_(a.max),
                !.step = IF a.step = None THEN None ELSE float_(a.step)])

\* Range.__init__
Range_init(a) ==
    LET base == Parameter_init("Range", a.name, a.label, float_(a.initial), FALSE)
    IN IF base.err # "ok" THEN base
       ELSE IF \E v \in {a.min, a.max, a.step} :
                 v # None /\ isinstance_float(v) /\ isinf_or_isnan(v)
       THEN Raise("DPClientError")
       ELSE _check_instance([base.self EXCEPT
                !.min = float_(a.min), !.max = float_(a.max),
                !.step = IF a.step = None THEN None ELSE float_(a.step)])

In(x, xs) == \E i \in 1..Len(xs) : xs[i] = x

\* Choice.__init__
Choice_init(a) ==
    IF a.options = <<>> THEN Raise("DPClientError")
    ELSE IF a.initial # None /\ ~In(a.initial.v, a.options) THEN Raise("DPClientError")
    ELSE IF \E i \in 1..Len(a.options) : a.options[i] = <<>> THEN Raise("DPClientError")
    ELSE LET base == Parameter_init("Choice", a.name, a.label, a.initial, FALSE)
         IN IF base.err # "ok" THEN base
            ELSE _check_instance([base.self EXCEPT !.options = a.options])

\* MultiChoice.__init__
MultiChoice_init(a) ==
    LET initial == IF a.initial = None \/ a.initial.v = <<>> THEN List(<<>>) ELSE a.initial
    IN IF a.options = <<>> THEN Raise("DPClientError")
       ELSE IF \E i \in 1..Len(initial.v) : ~In(initial.v[i], a.options)
       THEN Raise("DPClientError")
       ELSE IF \E i \in 1..Len(a.options) : a.options[i] = <<>> THEN Raise("DPClientError")
       ELSE LET base == Parameter_init("MultiChoice", a.name, a.label, initial, a.allow_empty)
            IN IF base.err # "ok" THEN base
               ELSE _check_instance([base.self EXCEPT !.options = a.options])

\* <Variant>(**a)
New(variant, a) ==
    CASE variant = "Range" -> Range_init(a)
      [] variant = "Choice" -> Choice_init(a)
      [] variant = "MultiChoice" -> MultiChoice_init(a)
      [] variant = "Tags" -> Tags_init(a)
      [] OTHER -> Simple_init(variant, a)

\* the type descriptor each class declares as _T
TypeOf(variant) ==
    CASE variant = "Switch" -> "bool"
      [] variant = "TextBox" -> "str"
      [] variant \in {"NumberBox", "Range"} -> "float"
      [] variant = "Choice" -> "str"
      [] variant \in {"MultiChoice", "Tags"} -> "SList"
      [] variant = "Date" -> "date"
      [] variant = "Time" -> "time"
      [] variant = "DateTime" -> "datetime"
      [] OTHER -> "Optional[B64Path]"

\* Parameter._as_field, Range._as_field: the instance afterwards and the field
_as_field(self) ==
    IF self.variant = "Range"
    THEN [self |-> self,
          out |-> [T |-> "confloat", ge |-> self.min, le |-> self.max, default |-> self.initial]]
    ELSE [self |-> self,
          out |-> [T |-> TypeOf(self.variant), ge |-> None, le |-> None, default |-> self.initial]]

Accept(v) == [err |-> "ok", value |-> v]
Reject == [err |-> "AssertionError", value |-> None]

Choice_validator_any(self, x) == Accept(x)

\* the f of Choice._validator
Choice_validator_f(self, x) == IF In(x.v, self.options) THEN Accept(x) ELSE Reject

\* MultiChoice._check: set(xs).issubset(ys)
MultiChoice_check(xs, ys) == {xs[i] : i \in 1..Len(xs)} \subseteq {ys[i] : i \in 1..Len(ys)}

\* the f of MultiChoice._validator
MultiChoice_validator_f(self, xs) ==
    IF MultiChoice_check(xs.v, self.options) THEN Accept(xs) ELSE Reject

is_file(p, fsys) == p \in DOMAIN fsys /\ fsys[p].kind = "file"
exists(p, fsys) == p \in DOMAIN fsys

\* the f of File._validator
File_validator_f(x, fsys) ==
    IF is_file(x.v, fsys) /\ exists(x.v, fsys) THEN Accept(PathV(x.v)) ELSE Reject

\* self._validator()(x): the instance afterwards and what f returned
_validator(self, x, fsys) ==
    [self |-> self,
     out |-> CASE self.variant = "Choice" -> Choice_validator_f(self, x)
               [] self.variant = "MultiChoice" -> MultiChoice_validator_f(self, x)
               [] self.variant = "File" -> File_validator_f(x, fsys)
               [] OTHER -> Accept(x)]

(***************************************************************************)
(* Constructor arguments and submitted values tried                        *)
(***************************************************************************)
Args(n, l, i, ae, mn, mx, st, opts) ==
    [name |-> n, label |-> l, initial |-> i, allow_empty |-> ae,
     min |-> mn, max |-> mx, step |-> st, options |-> opts]

Plain(inits, aes) ==
    {Args(n, l, i, ae, None, None, None, <<>>) :
        n \in Names, l \in Labels, i \in inits, ae \in aes}

ArgsOf(variant) ==
    CASE variant = "Switch" -> Plain({Bool(TRUE), Bool(FALSE)}, {FALSE})
      [] variant = "TextBox" -> Plain({Str(s) : s \in Strings}, BOOLEAN)
      [] variant = "NumberBox" -> Plain(NumInputs, {FALSE})
      [] variant = "Range" ->
            {Args(n, l, i, FALSE, mn, mx, st, <<>>) :
                n \in Names, l \in Labels, i \in NumInputs,
                mn \in {Int_(0), Float(0)} \cup NonFinite,
                mx \in {Int_(10), Float(10)} \cup NonFinite,
                st \in {None, Int_(1), Float(1)} \cup NonFinite}
      [] variant = "Choice" ->
            {Args(n, l, i, FALSE, None, None, None, o) :
                n \in Names, l \in Labels, i \in {None} \cup {Str(s) : s \in Strings},
                o \in SeqsUpTo(Strings, MaxOpts)}
      [] variant = "MultiChoice" ->
            {Args(n, l, List(i), ae, None, None, None, o) :
                n \in Names, l \in Labels, i \in SeqsUpTo(Strings, MaxSel),
                ae \in BOOLEAN, o \in SeqsUpTo(Strings, MaxOpts)}
      [] variant = "Tags" -> Plain({List(i) : i \in SeqsUpTo(Strings, MaxSel)}, BOOLEAN)
      [] variant = "Date" -> Plain({None} \cup Dates, {FALSE})
      [] variant = "Time" -> Plain({None} \cup Times, {FALSE})
      [] variant = "DateTime" ->
            Plain({None} \cup {DateTimeV(d, tm) : d \in Dates, tm \in Times}, {FALSE})
      [] OTHER -> Plain({None} \cup Paths, BOOLEAN)

Submitted(variant) ==
    CASE variant = "Switch" -> {Bool(TRUE), Bool(FALSE)}
      [] variant \in {"TextBox", "Choice"} -> {Str(s) : s \in Strings}
      [] variant \in {"NumberBox", "Range"} -> NumInputs
      [] variant \in {"MultiChoice", "Tags"} -> {List(i) : i \in SeqsUpTo(Strings, MaxSel)}
      [] variant = "Date" -> Dates
      [] variant = "Time" -> Times
      [] variant = "DateTime" -> {DateTimeV(d, tm) : d \in Dates, tm \in Times}
      [] OTHER -> Paths

(***************************************************************************)
(* Operations on parameters                                                *)
(***************************************************************************)
NoAttempt == [variant |-> "none", args |-> None]

ParamIdle ==
    /\ attempt = NoAttempt
    /\ outcome = "none"
    /\ inst = NoInst
    /\ lastOp = "none"
    /\ result = NoResult
    /\ markup = NoMarkup

\* the constructor call <variant>(**a); a behaviour follows one call and the
\* instance it returns
Construct(variant, a) ==
    /\ attempt' = [variant |-> variant, args |-> a]
    /\ LET r == New(variant, a)
       IN /\ outcome' = r.err
          /\ inst' = r.self
    /\ lastOp' = "construct"
    /\ result' = NoResult
    /\ markup' = NoMarkup
    /\ UNCHANGED <<fileVars, configVars>>

ToXml ==
    /\ inst # NoInst
    /\ LET x == _to_xml(inst)
       IN /\ inst' = x.self
          /\ markup' = x.out
    /\ lastOp' = "to_xml"
    /\ UNCHANGED <<attempt, outcome, result, fileVars, configVars>>

AsField ==
    /\ inst # NoInst
    /\ LET x == _as_field(inst)
       IN /\ inst' = x.self
          /\ result' = [op |-> "as_field", x |-> None, out |-> x.out]
    /\ lastOp' = "as_field"
    /\ UNCHANGED <<attempt, outcome, markup, fileVars, configVars>>

Validate(v) ==
    /\ inst # NoInst
    /\ LET x == _validator(inst, v, fs)
       IN /\ inst' = x.self
          /\ result' = [op |-> "validator", x |-> v, out |-> x.out]
    /\ lastOp' = "validator"
    /\ UNCHANGED <<attempt, outcome, markup, fileVars, configVars>>

(***************************************************************************)
(* B64Path.validate: base64.decode into a NamedTemporaryFile               *)
(***************************************************************************)
\* characters of a payload: a base64 digit, the pad, a character outside the
\* base64 alphabet, the line end
B64Chars == {"Q", "=", "!", "\n"}
Payloads == SeqsUpTo(B64Chars, MaxLen)

\* binascii's table_a2b_base64; 64 and above: not a base64 digit
table_a2b_base64(c) == IF c = "Q" THEN 16 ELSE 64

\* binascii.a2b_base64(line), strict_mode off, as a left-to-right scan:
\* st = [quad_pos, leftchar, pads, done, out]
a2b_step(st, c) ==
    IF st.done THEN st
    ELSE IF c = "="
    THEN IF st.quad_pos >= 2 /\ st.quad_pos + st.pads + 1 >= 4
         THEN [st EXCEPT !.done = TRUE]
         ELSE IF st.quad_pos >= 2 THEN [st EXCEPT !.pads = st.pads + 1] ELSE st
    ELSE IF table_a2b_base64(c) >= 64 THEN st
    ELSE LET ch == table_a2b_base64(c)
         IN CASE st.quad_pos = 0 ->
                    [st EXCEPT !.pads = 0, !.quad_pos = 1, !.leftchar = ch]
              [] st.quad_pos = 1 ->
                    [st EXCEPT !.pads = 0, !.quad_pos = 2, !.leftchar = ch % 16,
                               !.out = st.out \o <<(st.leftchar * 4 + ch \div 16) % 256>>]
              [] st.quad_pos = 2 ->
                    [st EXCEPT !.pads = 0, !.quad_pos = 3, !.leftchar = ch % 4,
                               !.out = st.out \o <<(st.leftchar * 16 + ch \div 4) % 256>>]
              [] OTHER ->
                    [st EXCEPT !.pads = 0, !.quad_pos = 0, !.leftchar = 0,
                               !.out = st.out \o <<(st.leftchar * 64 + ch) % 256>>]

RECURSIVE a2b_scan(_, _)
a2b_scan(st, line) == IF line = <<>> THEN st ELSE a2b_scan(a2b_step(st, Head(line)), Tail(line))

\* the bytes, or binascii.Error (a ValueError) when the scan ends, not at a
\* pad sequence, with a quad left open
a2b_base64(line) ==
    LET st == a2b_scan([quad_pos |-> 0, leftchar |-> 0, pads |-> 0, done |-> FALSE, out |-> <<>>],
                       line)
    IN IF ~st.done /\ st.quad_pos # 0 THEN [err |-> "ValueError", out |-> <<>>]
       ELSE [err |-> "ok", out |-> st.out]

\* io.StringIO(v).readline(), repeated: each line with its line end
RECURSIVE readlines(_, _)
readlines(v, cur) ==
    IF v = <<>> THEN IF cur = <<>> THEN <<>> ELSE <<cur>>
    ELSE IF Head(v) = "\n" THEN <<cur \o <<"\n">>>> \o readlines(Tail(v), <<>>)
    ELSE readlines(Tail(v), cur \o <<Head(v)>>)

\* base64.decode(input, output): line by line, each written as it is decoded;
\* [err, out]: out is what reached the output before the error, if any
RECURSIVE b64_decode_lines(_, _)
b64_decode_lines(lines, written) ==
    IF lines = <<>> THEN [err |-> "ok", out |-> written]
    ELSE LET s == a2b_base64(Head(lines))
         IN IF s.err # "ok" THEN [err |-> s.err, out |-> written]
            ELSE b64_decode_lines(Tail(lines), written \o s.out)

base64_decode(v) == b64_decode_lines(readlines(v, <<>>), <<>>)

\* prefix="dp-uploaded-" and the name tempfile draws
TmpPath(i) == <<"d", "p", "-", ToString(i)>>
TmpPaths == {TmpPath(i) : i \in 1..MaxFiles}

NamedTemporaryFile_any(fsys) == TmpPaths

\* the names NamedTemporaryFile may create: it opens with O_EXCL, so never
\* one that exists
NamedTemporaryFile(fsys) == TmpPaths \ DOMAIN fsys

\* the file system after `with NamedTemporaryFile("wb", delete=False) as out_f`
\* wrote `data` and closed
WriteFile(fsys, p, data) ==
    [q \in DOMAIN fsys \cup {p} |-> IF q = p THEN [kind |-> "file", data |-> data] ELSE fsys[q]]

\* the uploads tried one after another: empty, of one, two and three bytes,
\* refused, made of characters outside the alphabet, of two lines, and of a
\* good line followed by a bad one (refused after the first line is written)
Uploads ==
    {<<>>,
     <<"Q", "Q", "=", "=">>,
     <<"Q", "Q", "Q", "=">>,
     <<"Q", "Q", "Q", "Q">>,
     <<"Q">>,
     <<"!", "!">>,
     <<"Q", "Q", "=", "=", "\n", "Q", "Q", "=", "=", "\n">>,
     <<"Q", "Q", "=", "=", "\n", "Q">>}

NoDecode == [err |-> "none", handle |-> None, bytes |-> <<>>, created |-> FALSE, strict |-> FALSE]
NoPayload == <<"none">>

\* RFC 4648 base64 of one line: whole quads of digits, the last one padded
\* with at most two "="
RECURSIVE AllDigits(_)
AllDigits(cs) == cs = <<>> \/ (table_a2b_base64(Head(cs)) < 64 /\ AllDigits(Tail(cs)))

StrictLine(cs) ==
    /\ Len(cs) % 4 = 0
    /\ \E k \in 0..2 :
          /\ k <= Len(cs)
          /\ AllDigits(SubSeq(cs, 1, Len(cs) - k))
          /\ \A i \in (Len(cs) - k + 1)..Len(cs) : cs[i] = "="
          /\ k > 0 => Len(cs) >= 4

StripEol(line) ==
    IF line # <<>> /\ line[Len(line)] = "\n" THEN SubSeq(line, 1, Len(line) - 1) ELSE line

\* valid base64: every line of the payload is
IsValidB64(v) ==
    LET ls == readlines(v, <<>>) IN \A i \in 1..Len(ls) : StrictLine(StripEol(ls[i]))

FileIdle ==
    /\ fs = <<>>
    /\ handles = <<>>
    /\ decoded = NoDecode
    /\ payload = NoPayload

\* B64Path.validate(v)
B64Path_validate(v) ==
    /\ NamedTemporaryFile(fs) # {}
    /\ \E p \in NamedTemporaryFile(fs) :
          LET d == base64_decode(v)
          IN /\ fs' = WriteFile(fs, p, d.out)
             /\ IF d.err = "ok"
                THEN /\ handles' = Append(handles, PathV(p))
                     /\ decoded' = [err |-> "ok", handle |-> PathV(p), bytes |-> d.out,
                                    created |-> p \notin DOMAIN fs, strict |-> IsValidB64(v)]
                ELSE /\ handles' = handles
                     /\ decoded' = [err |-> d.err, handle |-> None, bytes |-> <<>>,
                                    created |-> p \notin DOMAIN fs, strict |-> IsValidB64(v)]
    /\ UNCHANGED <<paramVars, configVars>>

\* one upload, its payload recorded
DecodeOne(v) ==
    /\ handles = <<>>
    /\ DOMAIN fs = {}
    /\ B64Path_validate(v)
    /\ payload' = v

\* one upload among many
Decode(v) ==
    /\ B64Path_validate(v)
    /\ UNCHANGED payload

(***************************************************************************)
(* client/config.py.  Its strings are never taken apart, so they are kept  *)
(* whole; a server is its host, as the list of the host's labels.          *)
(***************************************************************************)
DEFAULT_SERVER == <<"datapane", "com">>
DEFAULT_TOKEN == "TOKEN_HERE"

Servers == {DEFAULT_SERVER, <<"localhost">>, <<"intranet">>}
Uuids == {"u1"}
Envs == {Str("default"), Str("dev")}

\* class Config
Config(server, token, username, session_id, analytics) ==
    [server |-> server, token |-> token, username |-> username,
     session_id |-> session_id, analytics |-> analytics]

\* the configs a caller passes and the yaml a config file holds at the start;
\* session_id "" is also the file without the key (the dataclass default)
Configs ==
    {Config(sv, DEFAULT_TOKEN, un, sid, TRUE) :
        sv \in Servers, un \in {"", "me"}, sid \in {""} \cup Uuids}

NoFile == [absent |-> TRUE]

\* f"{env}.yaml"
EnvFile(env) == IF env = None THEN "None.yaml" ELSE env.v \o ".yaml"
FileNames == {EnvFile(e) : e \in Envs \cup {None}}

\* get_default_config(), with the uuid4().hex drawn
get_default_config(u) == Config(DEFAULT_SERVER, DEFAULT_TOKEN, "", u, TRUE)

\* get_config_file(env): the directory afterwards
get_config_file(dir, env, u) ==
    IF dir[EnvFile(env)] = NoFile
    THEN [dir EXCEPT ![EnvFile(env)] = get_default_config(u)]
    ELSE dir

\* default_analytics_state(server): a bool, or the IndexError of
\* f.host.split(".")[-2] on a host without a dot
default_analytics_state(server, by_dp) ==
    IF by_dp THEN [err |-> "ok", value |-> FALSE]
    ELSE IF In("localhost", server) THEN [err |-> "ok", value |-> TRUE]
    ELSE IF Len(server) < 2 THEN [err |-> "IndexError", value |-> FALSE]
    ELSE [err |-> "ok", value |-> server[Len(server) - 1] = "datapane"]

update_code_analytics_only(code, u, analytics) == [code EXCEPT !.analytics = analytics]

\* the body of the `with update_config(...) as x` of update_config_with_analytics
update_code(code, u, analytics) == [code EXCEPT !.session_id = u, !.analytics = analytics]

\* ping(cli_login=True) and capture_init() send an event and leave the
\* configuration alone
ping(c) == c
capture_init(c) == c

Frame(env, cfg) == [pc |-> "start", config_env |-> env, config |-> cfg, local |-> None]
Top == stack[Len(stack)]
SetTop(f) == [stack EXCEPT ![Len(stack)] = f]

ConfigIdle ==
    /\ config = None
    /\ last_config_env = None
    /\ files = [n \in FileNames |-> NoFile]
    /\ stack = <<>>
    /\ ret = "none"
    /\ nested = 0
    /\ by_datapane = FALSE

\* a caller calls init(config_env, config)
CallInit(env, cfg) ==
    /\ stack' = <<Frame(env, cfg)>>
    /\ ret' = "running"
    /\ nested' = 0
    /\ UNCHANGED <<config, last_config_env, files, by_datapane, paramVars, fileVars>>

\* init, up to update_config_with_analytics: set_config or load_from_envfile
InitStart ==
    /\ stack # <<>>
    /\ Top.pc = "start"
    /\ IF Top.config # None
       THEN /\ config' = Top.config
            /\ UNCHANGED <<last_config_env, files>>
       ELSE \E u \in Uuids :
               /\ last_config_env' = Top.config_env
               /\ files' = get_config_file(files, Top.config_env, u)
               /\ config' = files'[EnvFile(Top.config_env)]
    /\ stack' = SetTop([Top EXCEPT !.pc = "analytics"])
    /\ UNCHANGED <<ret, nested, by_datapane, paramVars, fileVars>>

\* update_config_with_analytics, up to the init that update_config calls
UpdateConfigWithAnalytics ==
    /\ stack # <<>>
    /\ Top.pc = "analytics"
    /\ IF config.session_id # ""
       THEN /\ stack' = SetTop([Top EXCEPT !.pc = "capture"])
            /\ UNCHANGED <<files, ret, nested>>
       ELSE \E u1 \in Uuids, u2 \in Uuids :
               LET dir == get_config_file(files, last_config_env, u1)
                   code == dir[EnvFile(last_config_env)]
                   state == default_analytics_state(config.server, by_datapane)
               IN IF state.err # "ok"
                  THEN /\ files' = dir
                       /\ stack' = <<>>
                       /\ ret' = state.err
                       /\ UNCHANGED nested
                  ELSE /\ Len(stack) < MaxDepth
                       /\ files' = [dir EXCEPT ![EnvFile(last_config_env)] =
                                       update_code(code, u2, state.value)]
                       /\ stack' = Append(SetTop([Top EXCEPT !.pc = "after_update",
                                                              !.local = config]),
                                          Frame(last_config_env, None))
                       /\ nested' = nested + 1
                       /\ UNCHANGED ret
    /\ UNCHANGED <<config, last_config_env, by_datapane, paramVars, fileVars>>

\* update_config_with_analytics after the with block: ping for a logged-in user
AfterUpdate ==
    /\ stack # <<>>
    /\ Top.pc = "after_update"
    /\ config' = IF Top.local.username # "" THEN ping(config) ELSE config
    /\ stack' = SetTop([Top EXCEPT !.pc = "capture"])
    /\ UNCHANGED <<last_config_env, files, ret, nested, by_datapane, paramVars, fileVars>>

\* capture_init(), and init returns
CaptureInit ==
    /\ stack # <<>>
    /\ Top.pc = "capture"
    /\ config' = capture_init(config)
    /\ stack' = SubSeq(stack, 1, Len(stack) - 1)
    /\ ret' = IF Len(stack) = 1 THEN "returned" ELSE ret
    /\ UNCHANGED <<last_config_env, files, nested, by_datapane, paramVars, fileVars>>

(***************************************************************************)
(* Specifications                                                          *)
(***************************************************************************)
Idle == ParamIdle /\ FileIdle /\ ConfigIdle

\* the parameter blocks: a constructor call, any variant and arguments, then
\* the operations on the instance it returned
Init == Idle

Next ==
    \/ attempt = NoAttempt /\ \E variant \in Variants : \E a \in ArgsOf(variant) :
                                 Construct(variant, a)
    \/ ToXml
    \/ AsField
    \/ \E v \in Submitted(inst.variant) : Validate(v)

Spec == Init /\ [][Next]_vars

\* one upload, every payload
DecodeNext == \E v \in Payloads : DecodeOne(v)

DecodeSpec == Idle /\ [][DecodeNext]_vars

\* uploads one after another
UploadNext == \E v \in Uploads : Decode(v)

UploadSpec == Idle /\ [][UploadNext]_vars

\* the client configuration: any config files to start from, init called
\* again and again
ConfigInit ==
    /\ ParamIdle
    /\ FileIdle
    /\ config = None
    /\ last_config_env = None
    /\ files \in [FileNames -> {NoFile} \cup Configs]
    /\ files["None.yaml"] = NoFile
    /\ files["dev.yaml"] \in {NoFile, Config(<<"intranet">>, DEFAULT_TOKEN, "me", "", TRUE)}
    /\ stack = <<>>
    /\ ret = "none"
    /\ nested = 0
    /\ by_datapane \in BOOLEAN

ConfigStep ==
    \/ InitStart
    \/ UpdateConfigWithAnalytics
    \/ AfterUpdate
    \/ CaptureInit

ConfigNext ==
    \/ stack = <<>> /\ \E env \in Envs \cup {None}, cfg \in Configs \cup {None} :
                           CallInit(env, cfg)
    \/ ConfigStep

\* init is synchronous code: once called it runs on
ConfigSpec == ConfigInit /\ [][ConfigNext]_vars /\ WF_vars(ConfigStep)

(***************************************************************************)
(* Properties                                                              *)
(***************************************************************************)
Constructed == outcome # "none"

ValidName(n) == n.v # <<>> /\ XmlCompatible(n.v)
ValidLabel(l) == l = None \/ (l.v # <<>> /\ XmlCompatible(l.v))
Finite(v) == v = None \/ v.cls = "fin"
NoEmptyOption(opts) == \A i \in 1..Len(opts) : opts[i] # <<>>

\* the initial value is covered by the options
Covered(variant, a) ==
    IF variant = "Choice"
    THEN a.initial = None \/ In(a.initial.v, a.options)
    ELSE \A i \in 1..Len(a.initial.v) : In(a.initial.v[i], a.options)

\* the arguments other than name and label are valid ones
OtherwiseValid(variant, a) ==
    CASE variant = "TextBox" -> XmlCompatible(a.initial.v)
      [] variant = "Range" -> Finite(a.min) /\ Finite(a.max) /\ Finite(a.step)
      [] variant = "Choice" ->
            /\ a.options # <<>>
            /\ NoEmptyOption(a.options)
            /\ Covered(variant, a)
            /\ a.initial # None => XmlCompatible(a.initial.v)
      [] variant = "MultiChoice" ->
            a.options # <<>> /\ NoEmptyOption(a.options) /\ Covered(variant, a)
      [] OTHER -> TRUE

\* C1: for every variant with otherwise valid arguments, an empty name is
\* refused with DPClientError, label "" is refused with DPClientError, and
\* label None is accepted.
C1_NameAndLabel ==
    (Constructed /\ OtherwiseValid(attempt.variant, attempt.args)) =>
        /\ (attempt.args.name.v = <<>> /\ ValidLabel(attempt.args.label))
              => (outcome = "DPClientError" /\ inst = NoInst)
        /\ (attempt.args.label = Str(<<>>) /\ ValidName(attempt.args.name))
              => (outcome = "DPClientError" /\ inst = NoInst)
        /\ (attempt.args.label = None /\ ValidName(attempt.args.name))
              => (outcome = "ok" /\ inst # NoInst)

C1_Witness ==
    /\ attempt.variant = "MultiChoice"
    /\ OtherwiseValid(attempt.variant, attempt.args)
    /\ attempt.args.initial.v # <<>>
    /\ ValidName(attempt.args.name)
    /\ attempt.args.label = Str(<<>>)
    /\ outcome = "DPClientError"

\* every invariant of the data model holds of the instance
FullyValid(self) ==
    /\ self # NoInst
    /\ self.name.v # <<>>
    /\ self.label # Str(<<>>)
    /\ self.variant = "Range" => (Finite(self.min) /\ Finite(self.max) /\ Finite(self.step))
    /\ self.variant \in {"Choice", "MultiChoice"} =>
          (self.options # <<>> /\ NoEmptyOption(self.options))
    /\ _to_xml(self).out.err = "ok"

\* C2: every constructor call ends with a fully valid instance returned or
\* with DPClientError raised and no instance; there is no other outcome.
C2_OnlyConstructionError ==
    Constructed =>
        /\ outcome \in {"ok", "DPClientError"}
        /\ outcome = "ok" => FullyValid(inst)
        /\ outcome # "ok" => inst = NoInst

\* C3: for Choice and MultiChoice with a valid name and label, construction
\* succeeds exactly when there is an option, no option is empty and the
\* initial value is covered by the options; otherwise it raises DPClientError.
C3_ChoiceIff ==
    (/\ Constructed
     /\ attempt.variant \in {"Choice", "MultiChoice"}
     /\ ValidName(attempt.args.name)
     /\ ValidLabel(attempt.args.label)) =>
        /\ outcome = "ok" <=>
              (/\ attempt.args.options # <<>>
               /\ NoEmptyOption(attempt.args.options)
               /\ Covered(attempt.variant, attempt.args))
        /\ outcome # "ok" => outcome = "DPClientError"

Validated == lastOp = "validator" /\ result.op = "validator"

\* C4: the validator of a Choice returns x when x is one of the options and
\* rejects it otherwise; the validator of a MultiChoice returns xs when every
\* element of xs is one of the options and rejects it otherwise.
C4_Validators ==
    /\ (Validated /\ inst.variant = "Choice") =>
          IF \E i \in 1..Len(inst.options) : inst.options[i] = result.x.v
          THEN result.out = [err |-> "ok", value |-> result.x]
          ELSE result.out.err = "AssertionError"
    /\ (Validated /\ inst.variant = "MultiChoice") =>
          IF \A j \in 1..Len(result.x.v) :
                \E i \in 1..Len(inst.options) : inst.options[i] = result.x.v[j]
          THEN result.out = [err |-> "ok", value |-> result.x]
          ELSE result.out.err = "AssertionError"

C4_Witness ==
    /\ Validated
    /\ inst.variant = "Choice"
    /\ result.x.v # <<>>
    /\ result.out.err = "AssertionError"

\* C5: the validator of a MultiChoice built with allow_empty=False rejects [].
C5_EmptyRejected ==
    (/\ Validated
     /\ inst.variant = "MultiChoice"
     /\ ~attempt.args.allow_empty
     /\ result.x = List(<<>>)) => result.out.err # "ok"

\* C6: a Range whose min, max or step is inf, -inf or nan is refused with
\* DPClientError whatever the other arguments are; with min, max and step
\* finite and a valid name and label it is constructed.
C6_RangeFinite ==
    (Constructed /\ attempt.variant = "Range") =>
        /\ (\E v \in {attempt.args.min, attempt.args.max, attempt.args.step} : ~Finite(v))
              => (outcome = "DPClientError" /\ inst = NoInst)
        /\ (/\ Finite(attempt.args.min) /\ Finite(attempt.args.max) /\ Finite(attempt.args.step)
            /\ ValidName(attempt.args.name)
            /\ ValidLabel(attempt.args.label))
              => (outcome = "ok" /\ FullyValid(inst))

C6_Witness ==
    /\ attempt.variant = "Range"
    /\ ValidName(attempt.args.name)
    /\ ValidLabel(attempt.args.label)
    /\ attempt.args.initial = Int_(5)
    /\ attempt.args.min = Int_(0)
    /\ attempt.args.max = Int_(10)
    /\ attempt.args.step = NaN
    /\ outcome = "DPClientError"

\* C7: decoding a payload that is not valid base64 returns no handle: it
\* ends with a ValueError, which the schema layer reports as a validation
\* error.
C7_InvalidRejected ==
    (decoded.err # "none" /\ ~decoded.strict) =>
        (decoded.err = "ValueError" /\ decoded.handle = None)

\* C8: the handles returned are pairwise distinct, and the handle just
\* returned names a file created by that call, which exists, is a regular
\* file, holds the decoded bytes and passes the File validator.
C8_FreshArtifacts ==
    /\ \A i \in 1..Len(handles) : \A j \in 1..Len(handles) :
          i # j => handles[i] # handles[j]
    /\ \A i \in 1..Len(handles) : File_validator_f(handles[i], fs).err = "ok"
    /\ decoded.err = "ok" =>
          /\ decoded.created
          /\ handles # <<>>
          /\ handles[Len(handles)] = decoded.handle
          /\ decoded.handle.v \in DOMAIN fs
          /\ fs[decoded.handle.v] = [kind |-> "file", data |-> decoded.bytes]
          /\ File_validator_f(decoded.handle, fs) = [err |-> "ok", value |-> decoded.handle]

C8_Witness ==
    /\ Len(handles) >= 2
    /\ decoded.err = "ok"
    /\ decoded.bytes # <<>>
    /\ fs[handles[1].v].data = decoded.bytes
    /\ handles[1] # decoded.handle

\* C9: _to_xml, _as_field and the validator leave the instance as it was,
\* and a second _to_xml on the instance returns what the first returned.
C9_NeverMutated ==
    [][lastOp' \in {"to_xml", "as_field", "validator"} =>
          /\ inst' = inst
          /\ (lastOp' = "to_xml" /\ markup # NoMarkup) => markup' = markup]_vars

C9_Witness ==
    /\ inst.variant = "Choice"
    /\ lastOp = "to_xml"
    /\ markup.err = "ok"
    /\ result.op = "validator"

\* C10: init nests at most one level deep through update_config, every call
\* of it ends, and when it returns the config is set with a session_id.
C10_InitReentrant ==
    /\ [](/\ Len(stack) <= 2
          /\ nested <= 1
          /\ ret = "returned" => (config # None /\ config.session_id # ""))
    /\ (stack # <<>>) ~> (stack = <<>>)

C10_Witness ==
    /\ ret = "returned"
    /\ nested = 1
    /\ last_config_env = None
    /\ config.session_id # ""

====
